---- MODULE Spec2Model ----
(***************************************************************************)
(* Model of frigate/output/preview.py: the PreviewRecorder that selects    *)
(* frames for a low-fps preview, buffers their timestamps per window, and  *)
(* the FFMpegConverter threads that encode one window each and clean the   *)
(* frame cache.                                                            *)
(*                                                                         *)
(* Time is counted in ticks, TicksPerSecond ticks to the second, so that   *)
(* frames closer than 1/SUMMARY_OUTPUT_FPS can be told apart.  One camera  *)
(* (one PreviewRecorder) is modelled; frames are delivered in stream       *)
(* order (non-decreasing timestamps, repeats allowed).                     *)
(***************************************************************************)
EXTENDS Integers, Sequences, FiniteSets, TLC

\* ---- program constants ----
SUMMARY_OUTPUT_FPS == 1
SUMMARY_SEGMENT_DURATION == 30

\* ---- bounds of the model ----
TicksPerSecond == 2
MaxFrames == 3
MaxMotionBoxes == 2
MaxWriteFailures == 1
MaxPolicyTime == 6

Camera == "front"

SegmentTicks == SUMMARY_SEGMENT_DURATION * TicksPerSecond

\* gaps between consecutive delivered frames, in ticks: a repeat, a gap
\* below the rate limit, exactly one window, 33 s
Deltas == {0, 1, SegmentTicks, SegmentTicks + 3 * TicksPerSecond}

\* the gaps of the frames at 0.0, 2.0 and 35.0 s
ScenarioDeltas == {0, 2 * TicksPerSecond, 33 * TicksPerSecond}

\* tracked-object lists handed to write_data
Obj(zones, stationary) == [current_zones |-> zones, stationary |-> stationary]

ObjectLists ==
  { <<>>,
    <<Obj(<<>>, FALSE)>>,
    <<Obj(<<"yard">>, TRUE)>>,
    <<Obj(<<"yard">>, FALSE)>>,
    <<Obj(<<>>, FALSE), Obj(<<"yard">>, TRUE)>> }

ZonedMoving == <<Obj(<<"yard">>, FALSE)>>

MotionBoxLists == { [i \in 1..n |-> <<0, 0, 1, 1>>] : n \in 0..MaxMotionBoxes }

\* outcome of one write_frame_to_cache call: the file is written, or the call
\* raises before the file exists, or it raises after open() created the file
IoOutcomes == {"ok", "raise", "partial"}

ReturnCodes == {0, 1}

VARIABLES
  start_time,        \* PreviewRecorder.start_time (0 = unset)
  last_output_time,  \* PreviewRecorder.last_output_time
  output_frames,     \* PreviewRecorder.output_frames
  converters,        \* the FFMpegConverter threads started so far
  cache,             \* files present under CACHE_DIR/preview_frames
  queue,             \* inter_process_queue
  calls,             \* history: one record per write_data call
  nfail,             \* history: write_frame_to_cache calls that raised
  policy_call        \* history: the last direct should_write_frame call

vars ==
  <<start_time, last_output_time, output_frames, converters, cache, queue,
    calls, nfail, policy_call>>

Last(s) == s[Len(s)]

Range(s) == { s[i] : i \in 1..Len(s) }

\* variant: the timestamp is cut to whole seconds in the file name
cache_path_whole_seconds(camera, t) == <<camera, t \div TicksPerSecond>>

\* ---- cache file naming (lines 61, 103, 163) ----
\* the name holds the camera and the timestamp as str() prints it, which
\* tells any two different timestamps apart
cache_path(camera, t) == <<camera, t>>

\* variant: the stationary flag is not looked at
any_zoned(current_tracked_objects) ==
  \E k \in 1..Len(current_tracked_objects) :
      Len(current_tracked_objects[k].current_zones) > 0

\* ---- PreviewRecorder.should_write_frame ----
any_zoned_moving(current_tracked_objects) ==
  \E k \in 1..Len(current_tracked_objects) :
      /\ Len(current_tracked_objects[k].current_zones) > 0
      /\ ~current_tracked_objects[k].stationary

\* variant: the motion branch forgets to record the admission time
should_write_frame_no_record(lot, current_tracked_objects, motion_boxes, frame_time) ==
  IF (frame_time - lot) * SUMMARY_OUTPUT_FPS < TicksPerSecond
    THEN [ret |-> FALSE, last_output_time |-> lot]
  ELSE IF any_zoned_moving(current_tracked_objects)
    THEN [ret |-> TRUE, last_output_time |-> frame_time]
  ELSE IF Len(motion_boxes) % 2 = 1
    THEN [ret |-> TRUE, last_output_time |-> lot]
  ELSE [ret |-> FALSE, last_output_time |-> lot]

\* variant: a last_output_time of 0 is taken as "nothing written yet" and
\* skips the rate limit
should_write_frame_unset(lot, current_tracked_objects, motion_boxes, frame_time) ==
  IF lot # 0 /\ (frame_time - lot) * SUMMARY_OUTPUT_FPS < TicksPerSecond
    THEN [ret |-> FALSE, last_output_time |-> lot]
  ELSE IF any_zoned_moving(current_tracked_objects)
    THEN [ret |-> TRUE, last_output_time |-> frame_time]
  ELSE IF Len(motion_boxes) % 2 = 1
    THEN [ret |-> TRUE, last_output_time |-> frame_time]
  ELSE [ret |-> FALSE, last_output_time |-> lot]

\* variant: the time is recorded on the final rejection as well
should_write_frame_record_reject(lot, current_tracked_objects, motion_boxes, frame_time) ==
  IF (frame_time - lot) * SUMMARY_OUTPUT_FPS < TicksPerSecond
    THEN [ret |-> FALSE, last_output_time |-> lot]
  ELSE IF any_zoned_moving(current_tracked_objects)
    THEN [ret |-> TRUE, last_output_time |-> frame_time]
  ELSE IF Len(motion_boxes) % 2 = 1
    THEN [ret |-> TRUE, last_output_time |-> frame_time]
  ELSE [ret |-> FALSE, last_output_time |-> frame_time]

\* returns the bool and the value of self.last_output_time after the call
should_write_frame(lot, current_tracked_objects, motion_boxes, frame_time) ==
  IF (frame_time - lot) * SUMMARY_OUTPUT_FPS < TicksPerSecond
    THEN [ret |-> FALSE, last_output_time |-> lot]
  ELSE IF any_zoned_moving(current_tracked_objects)
    THEN [ret |-> TRUE, last_output_time |-> frame_time]
  ELSE IF Len(motion_boxes) % 2 = 1
    THEN [ret |-> TRUE, last_output_time |-> frame_time]
  ELSE [ret |-> FALSE, last_output_time |-> lot]

\* ---- PreviewRecorder.write_frame_to_cache ----
write_frame_to_cache(files, frame_time, io) ==
  IF io = "raise" THEN files ELSE files \cup {cache_path(Camera, frame_time)}

\* ---- FFMpegConverter.__init__ ----
FFMpegConverter(frame_times) ==
  [ camera      |-> Camera,
    frame_times |-> frame_times,
    path        |-> <<Camera, frame_times[1], Last(frame_times)>>,
    pc          |-> "start",
    playlist    |-> <<>>,
    invocations |-> 0,
    returncode  |-> 0,
    idx         |-> 1 ]

\* ---- FFMpegConverter.run: the playlist ----
FileLine(camera, t) ==
  [kind |-> "file", path |-> cache_path(camera, t), seconds |-> 0]

DurationLine(d) == [kind |-> "duration", path |-> <<>>, seconds |-> d]

\* variant: "last = t" is missing, every duration is taken from the start
RECURSIVE playlist_loop_from_start(_, _, _, _)
playlist_loop_from_start(camera, frame_times, i, last) ==
  IF i > Len(frame_times) THEN <<>>
  ELSE <<FileLine(camera, frame_times[i]), DurationLine(frame_times[i] - last)>>
         \o playlist_loop_from_start(camera, frame_times, i + 1, last)

RECURSIVE playlist_loop(_, _, _, _)
playlist_loop(camera, frame_times, i, last) ==
  IF i > Len(frame_times) THEN <<>>
  ELSE <<FileLine(camera, frame_times[i]), DurationLine(frame_times[i] - last)>>
         \o playlist_loop(camera, frame_times, i + 1, frame_times[i])

\* variant: the final file line (lines 67-69) is missing
build_playlist_no_trailer(camera, frame_times) == playlist_loop(camera, frame_times, 1, frame_times[1])

build_playlist(camera, frame_times) ==
  playlist_loop(camera, frame_times, 1, frame_times[1])
    \o <<FileLine(camera, Last(frame_times))>>

\* ---- FFMpegConverter.run: the result put on the queue ----
insert_preview(c) ==
  LET start == c.frame_times[1]
      end   == c.frame_times[2]
  IN [ id         |-> <<end, start>>,
       camera     |-> c.camera,
       path       |-> c.path,
       start_time |-> start,
       end_time   |-> end,
       duration   |-> end - start ]

\* variant: the result is put on the queue whatever the exit code
report_always(q, c, rc) == Append(q, insert_preview(c))

\* lines 81-97: put the result on the queue when the encoder exited with 0
report(q, c, rc) == IF rc = 0 THEN Append(q, insert_preview(c)) ELSE q

Init ==
  /\ start_time = 0
  /\ last_output_time = 0
  /\ output_frames = <<>>
  /\ converters = <<>>
  /\ cache = {}
  /\ queue = <<>>
  /\ calls = <<>>
  /\ nfail = 0
  /\ policy_call = <<>>

\* variant: the list is added to at the front
append_frame_front(frames, frame_time) == <<frame_time>> \o frames

\* ---- self.output_frames.append(frame_time), lines 180 and 186 ----
append_frame(frames, frame_time) == Append(frames, frame_time)

\* variant: start_time is set on every call
init_start_time_always(start, frame_time) == frame_time

\* ---- lines 176-177: a start_time of 0 is taken as unset ----
init_start_time(start, frame_time) == IF start = 0 THEN frame_time ELSE start

\* variant: line 194 is missing, so self.output_frames stays the list object
\* that every started converter holds, and later appends show in all of them
write_data_no_reset(current_tracked_objects, motion_boxes, frame_time, io1, io2) ==
  LET st1     == init_start_time(start_time, frame_time)
      swf     == should_write_frame(last_output_time, current_tracked_objects,
                                    motion_boxes, frame_time)
      of1     == IF swf.ret THEN append_frame(output_frames, frame_time)
                 ELSE output_frames
      cache1  == IF swf.ret THEN write_frame_to_cache(cache, frame_time, io1)
                 ELSE cache
      raised1 == swf.ret /\ io1 # "ok"
      close   == ~raised1 /\ frame_time - st1 > SegmentTicks
      of2     == IF close THEN append_frame(of1, frame_time) ELSE of1
      cache2  == IF close THEN write_frame_to_cache(cache1, frame_time, io2)
                 ELSE cache1
      raised2 == close /\ io2 # "ok"
      handoff == close /\ ~raised2
      started == IF handoff THEN Append(converters, FFMpegConverter(of2))
                 ELSE converters
  IN /\ (io1 # "ok") => swf.ret
     /\ (io2 # "ok") => close
     /\ (raised1 \/ raised2) => nfail < MaxWriteFailures
     /\ start_time' = IF handoff THEN frame_time ELSE st1
     /\ last_output_time' = swf.last_output_time
     /\ output_frames' = of2
     /\ converters' = [i \in 1..Len(started) |->
                         [started[i] EXCEPT !.frame_times = of2]]
     /\ cache' = cache2
     /\ nfail' = IF raised1 \/ raised2 THEN nfail + 1 ELSE nfail
     /\ calls' = Append(calls,
                   [ frame_time |-> frame_time,
                     admitted   |-> swf.ret,
                     raised     |-> raised1 \/ raised2,
                     writes     |-> (IF swf.ret /\ io1 = "ok" THEN 1 ELSE 0)
                                    + (IF close /\ io2 = "ok" THEN 1 ELSE 0),
                     handoff    |-> IF handoff THEN Len(converters) + 1 ELSE 0 ])
     /\ UNCHANGED <<queue, policy_call>>

\* ---- PreviewRecorder.write_data ----
\* io1 is the outcome of the write on admission, io2 of the forced write at
\* window close; an exception leaves the method where it was raised.  At a
\* handoff the converter keeps the list and line 194 binds a new, empty one.
write_data(current_tracked_objects, motion_boxes, frame_time, io1, io2) ==
  LET st1     == init_start_time(start_time, frame_time)
      swf     == should_write_frame(last_output_time, current_tracked_objects,
                                    motion_boxes, frame_time)
      of1     == IF swf.ret THEN append_frame(output_frames, frame_time)
                 ELSE output_frames
      cache1  == IF swf.ret THEN write_frame_to_cache(cache, frame_time, io1)
                 ELSE cache
      raised1 == swf.ret /\ io1 # "ok"
      close   == ~raised1 /\ frame_time - st1 > SegmentTicks
      of2     == IF close THEN append_frame(of1, frame_time) ELSE of1
      cache2  == IF close THEN write_frame_to_cache(cache1, frame_time, io2)
                 ELSE cache1
      raised2 == close /\ io2 # "ok"
      handoff == close /\ ~raised2
  IN /\ (io1 # "ok") => swf.ret
     /\ (io2 # "ok") => close
     /\ (raised1 \/ raised2) => nfail < MaxWriteFailures
     /\ start_time' = IF handoff THEN frame_time ELSE st1
     /\ last_output_time' = swf.last_output_time
     /\ output_frames' = IF handoff THEN <<>> ELSE of2
     /\ converters' = IF handoff THEN Append(converters, FFMpegConverter(of2))
                      ELSE converters
     /\ cache' = cache2
     /\ nfail' = IF raised1 \/ raised2 THEN nfail + 1 ELSE nfail
     /\ calls' = Append(calls,
                   [ frame_time |-> frame_time,
                     admitted   |-> swf.ret,
                     raised     |-> raised1 \/ raised2,
                     writes     |-> (IF swf.ret /\ io1 = "ok" THEN 1 ELSE 0)
                                    + (IF close /\ io2 = "ok" THEN 1 ELSE 0),
                     handoff    |-> IF handoff THEN Len(converters) + 1 ELSE 0 ])
     /\ UNCHANGED <<queue, policy_call>>

PrevFrameTime == IF calls = <<>> THEN 0 ELSE Last(calls).frame_time

\* variant: the converter is run in the calling thread, so a frame is taken
\* only when every earlier converter has ended
WriteDataJoined ==
  /\ Len(calls) < MaxFrames
  /\ \A i \in 1..Len(converters) : converters[i].pc \in {"done", "crashed"}
  /\ \E d \in Deltas, objs \in ObjectLists, boxes \in MotionBoxLists,
        io1 \in IoOutcomes, io2 \in IoOutcomes :
       write_data(objs, boxes, PrevFrameTime + d, io1, io2)

WriteData ==
  /\ Len(calls) < MaxFrames
  /\ \E d \in Deltas, objs \in ObjectLists, boxes \in MotionBoxLists,
        io1 \in IoOutcomes, io2 \in IoOutcomes :
       write_data(objs, boxes, PrevFrameTime + d, io1, io2)

\* ---- FFMpegConverter.run, step by step ----
\* the thread builds the playlist and invokes the external encoder (sp.run)
RunEncode(i) ==
  /\ i \in 1..Len(converters)
  /\ converters[i].pc = "start"
  /\ converters' = [converters EXCEPT
       ![i].playlist = build_playlist(converters[i].camera,
                                      converters[i].frame_times),
       ![i].invocations = @ + 1,
       ![i].pc = "encoding"]
  /\ UNCHANGED <<start_time, last_output_time, output_frames, cache, queue,
                 calls, nfail, policy_call>>

\* sp.run returns with some exit code.  Line 79 then reads frame_times[1]: on a
\* one-entry list that raises IndexError and the thread ends there, with no
\* result and no cleanup.  Otherwise the result is reported on exit code 0.
EncoderReturns(i, rc) ==
  /\ i \in 1..Len(converters)
  /\ converters[i].pc = "encoding"
  /\ IF Len(converters[i].frame_times) < 2
       THEN /\ converters' = [converters EXCEPT ![i].returncode = rc,
                                                ![i].pc = "crashed"]
            /\ queue' = queue
       ELSE /\ converters' = [converters EXCEPT ![i].returncode = rc,
                                                ![i].pc = "unlink"]
            /\ queue' = report(queue, converters[i], rc)
  /\ UNCHANGED <<start_time, last_output_time, output_frames, cache,
                 calls, nfail, policy_call>>

\* one iteration of the unlink loop (missing_ok=True)
Unlink(i) ==
  /\ i \in 1..Len(converters)
  /\ converters[i].pc = "unlink"
  /\ LET c == converters[i]
     IN /\ cache' = cache \ {cache_path(c.camera, c.frame_times[c.idx])}
        /\ converters' = [converters EXCEPT
             ![i].idx = @ + 1,
             ![i].pc = IF c.idx = Len(c.frame_times) THEN "done" ELSE "unlink"]
  /\ UNCHANGED <<start_time, last_output_time, output_frames, queue,
                 calls, nfail, policy_call>>

Next ==
  \/ WriteData
  \/ \E i \in 1..MaxFrames : RunEncode(i)
  \/ \E i \in 1..MaxFrames, rc \in ReturnCodes : EncoderReturns(i, rc)
  \/ \E i \in 1..MaxFrames : Unlink(i)

Spec == Init /\ [][Next]_vars

\* ---- every frame shows a moving object in a zone ----
WriteDataZoned ==
  /\ Len(calls) < MaxFrames
  /\ \E d \in ScenarioDeltas, boxes \in MotionBoxLists,
        io1 \in IoOutcomes, io2 \in IoOutcomes :
       write_data(ZonedMoving, boxes, PrevFrameTime + d, io1, io2)

NextZoned ==
  \/ WriteDataZoned
  \/ \E i \in 1..MaxFrames : RunEncode(i)
  \/ \E i \in 1..MaxFrames, rc \in ReturnCodes : EncoderReturns(i, rc)
  \/ \E i \in 1..MaxFrames : Unlink(i)

SpecZoned == Init /\ [][NextZoned]_vars

\* ---- should_write_frame called on its own ----
ShouldWriteFrameCall ==
  \E objs \in ObjectLists, boxes \in MotionBoxLists, t \in 0..MaxPolicyTime :
    LET swf == should_write_frame(last_output_time, objs, boxes, t)
    IN /\ last_output_time' = swf.last_output_time
       /\ policy_call' = << [ last_output_time        |-> last_output_time,
                              current_tracked_objects |-> objs,
                              motion_boxes            |-> boxes,
                              frame_time              |-> t,
                              ret                     |-> swf.ret ] >>
       /\ UNCHANGED <<start_time, output_frames, converters, cache, queue,
                      calls, nfail>>

NextPolicy == ShouldWriteFrameCall

SpecPolicy == Init /\ [][NextPolicy]_vars

\* ------------------------------------------------------------------------
\* Properties
\* ------------------------------------------------------------------------

\* the write_data call that handed off converter i
ClosingCall(i) == CHOOSE k \in 1..Len(calls) : calls[k].handoff = i

Returned(c) == c.pc \in {"unlink", "done", "crashed"}

SegmentFiles(c) == { cache_path(c.camera, c.frame_times[j]) :
                       j \in 1..Len(c.frame_times) }

\* C1: every segment handed to an FFMpegConverter has at least two entries and
\* its last two entries both equal the timestamp of the frame that closed the
\* window, also when that frame was rejected by should_write_frame.
C1_SegmentEndsWithClosingPair ==
  \A i \in 1..Len(converters) :
    LET ft == converters[i].frame_times
        T  == calls[ClosingCall(i)].frame_time
    IN /\ Len(ft) >= 2
       /\ ft[Len(ft)] = T
       /\ ft[Len(ft) - 1] = T

\* C2: when the external encoder has returned (any exit code) the task goes
\* on to its cleanup, and when the cleanup loop finishes no cache file named
\* by the segment exists.
C2_CleanupAfterEncoderReturns ==
  [][ \A i \in 1..Len(converters) :
        /\ (converters[i].pc = "encoding" /\ converters'[i].pc # "encoding")
              => converters'[i].pc = "unlink"
        /\ (converters[i].pc = "unlink" /\ converters'[i].pc # "unlink")
              => /\ converters'[i].pc = "done"
                 /\ SegmentFiles(converters[i]) \cap cache' = {} ]_vars

\* C3: any two frames for which should_write_frame returned True are at
\* least 1/SUMMARY_OUTPUT_FPS apart.
C3_AdmittedFramesOneSecondApart ==
  \A j, k \in 1..Len(calls) :
    (j < k /\ calls[j].admitted /\ calls[k].admitted)
      => (calls[k].frame_time - calls[j].frame_time) * SUMMARY_OUTPUT_FPS
           >= TicksPerSecond

\* two admitted frames exactly 1/SUMMARY_OUTPUT_FPS apart, with a rejected
\* frame between them
C3_Witness ==
  \E j, k \in 1..Len(calls) :
    /\ j + 1 < k
    /\ calls[j].admitted /\ calls[k].admitted /\ ~calls[j + 1].admitted
    /\ (calls[k].frame_time - calls[j].frame_time) * SUMMARY_OUTPUT_FPS
         = TicksPerSecond

NonDecreasing ==
  \A k \in 1..Len(calls) - 1 : calls[k].frame_time <= calls[k + 1].frame_time

StrictlyIncreasing ==
  \A k \in 1..Len(calls) - 1 : calls[k].frame_time < calls[k + 1].frame_time

BufferFiles == { cache_path(Camera, output_frames[j]) :
                   j \in 1..Len(output_frames) }

\* no cache file is named both by a segment and by the open window's buffer,
\* or by two segments
NoSharedCacheFile ==
  \A i \in 1..Len(converters) :
    /\ SegmentFiles(converters[i]) \cap BufferFiles = {}
    /\ \A j \in 1..Len(converters) :
         j # i => SegmentFiles(converters[i]) \cap SegmentFiles(converters[j]) = {}

\* a converter's unlink step removes a file that the open window's buffer
\* names, or that another segment names whose encode has not yet run
ForeignDelete ==
  \E i \in 1..Len(converters) :
    /\ converters[i].pc = "unlink"
    /\ converters'[i].idx = converters[i].idx + 1
    /\ \E f \in cache \ cache' :
         \/ f \in BufferFiles
         \/ \E j \in 1..Len(converters) :
              /\ j # i
              /\ converters[j].pc \in {"start", "encoding"}
              /\ f \in SegmentFiles(converters[j])

\* C4 as stated: with frame timestamps non-decreasing, no converter deletes a
\* cache file named by the open window's buffer or by another segment whose
\* encode has not yet run.
C4_NoForeignDeleteNonDecreasing == [][NonDecreasing => ~ForeignDelete]_vars

\* C4 amended: with frame timestamps strictly increasing, no cache file is
\* shared between two segments or between a segment and the open window, and
\* no converter deletes a file named by the buffer or by another segment
\* whose encode has not yet run.
C4_NoForeignDeleteStrictlyIncreasing ==
  [][StrictlyIncreasing' => (NoSharedCacheFile' /\ ~ForeignDelete)]_vars

\* strictly increasing frames, a segment whose task has finished its cleanup,
\* and an open window whose admitted frame is still in the cache
C4_Witness ==
  /\ StrictlyIncreasing
  /\ \E i \in 1..Len(converters) : converters[i].pc = "done"
  /\ output_frames # <<>>
  /\ BufferFiles \subseteq cache

ResultsFor(c) == { n \in 1..Len(queue) : queue[n].path = c.path }

\* C5: when the encoder exited with code 0 for a segment ts, exactly one
\* result for that segment is on the queue, with start_time = ts[0],
\* end_time = ts[1], duration = ts[1] - ts[0], id = "<end>-<start>" and the
\* camera's name.
C5_ResultOnSuccess ==
  \A i \in 1..Len(converters) :
    LET c == converters[i] IN
    (Returned(c) /\ c.returncode = 0)
      => /\ Cardinality(ResultsFor(c)) = 1
         /\ \A n \in ResultsFor(c) :
              /\ queue[n].start_time = c.frame_times[1]
              /\ queue[n].end_time = c.frame_times[2]
              /\ queue[n].duration = c.frame_times[2] - c.frame_times[1]
              /\ queue[n].id = <<c.frame_times[2], c.frame_times[1]>>
              /\ queue[n].camera = Camera

\* C6: the external encoder is invoked once per segment, never again, and
\* after a non-zero exit code no result for the segment is on the queue.
C6_OneInvocationNoResultOnFailure ==
  \A i \in 1..Len(converters) :
    LET c == converters[i] IN
    /\ c.invocations = (IF c.pc = "start" THEN 0 ELSE 1)
    /\ (Returned(c) /\ c.returncode # 0) => ResultsFor(c) = {}

\* a task that ended its cleanup after a failed encode
C6_Witness ==
  \E i \in 1..Len(converters) :
    /\ converters[i].pc = "done"
    /\ converters[i].returncode # 0
    /\ converters[i].invocations = 1

Handoffs == { k \in 1..Len(calls) : calls[k].handoff # 0 }

\* C7: whatever the converters are doing, write_data can take the next frame;
\* every window closure has started one converter, for its own segment.
C7_IngestionNotBlocked ==
  /\ Len(calls) < MaxFrames => ENABLED WriteData
  /\ Len(converters) = Cardinality(Handoffs)
  /\ \A i \in 1..Len(converters) :
       Cardinality({ k \in Handoffs : calls[k].handoff = i }) = 1

\* the first converter is still waiting for the encoder while a later frame
\* was admitted and closed the next window
C7_Witness ==
  /\ Len(converters) = 2
  /\ converters[1].pc = "encoding"
  /\ calls[ClosingCall(2)].admitted
  /\ Len(converters[2].frame_times) >= 2

DurationLines(playlist) ==
  { n \in 1..Len(playlist) : playlist[n].kind = "duration" }

RECURSIVE SumSeconds(_, _)
SumSeconds(playlist, n) ==
  IF n = 0 THEN 0
  ELSE SumSeconds(playlist, n - 1)
         + (IF playlist[n].kind = "duration" THEN playlist[n].seconds ELSE 0)

\* C8: in every playlist built by run, each duration is non-negative and the
\* durations add up to the last timestamp minus the first.
C8_PlaylistDurations ==
  \A i \in 1..Len(converters) :
    LET c == converters[i] IN
    c.pc # "start"
      => /\ \A n \in DurationLines(c.playlist) : c.playlist[n].seconds >= 0
         /\ SumSeconds(c.playlist, Len(c.playlist))
              = Last(c.frame_times) - c.frame_times[1]

\* a playlist over three different timestamps
C8_Witness ==
  \E i \in 1..Len(converters) :
    LET c == converters[i] IN
    /\ c.pc # "start"
    /\ Len(c.frame_times) >= 3
    /\ c.frame_times[1] < c.frame_times[2]
    /\ c.frame_times[2] < c.frame_times[3]

\* frames at 0.0, 2.0 and 35.0 s, every cache write succeeding (under
\* SpecZoned each frame comes with a moving object in a zone)
Scenario ==
  /\ Len(calls) = 3
  /\ calls[1].frame_time = 0
  /\ calls[2].frame_time = 2 * TicksPerSecond
  /\ calls[3].frame_time = 35 * TicksPerSecond
  /\ \A k \in 1..3 : ~calls[k].raised

ScenarioResult(frame_times, start, end) ==
  /\ Len(converters) = 1
  /\ converters[1].frame_times = frame_times
  /\ (Returned(converters[1]) /\ converters[1].returncode = 0)
       => /\ Len(queue) = 1
          /\ queue[1].start_time = start
          /\ queue[1].end_time = end
          /\ queue[1].duration = end - start

\* C9 as stated: the scenario hands off one segment [0.0, 2.0, 35.0, 35.0]
\* whose result has start 0.0, end 2.0, duration 2.0.
C9_ScenarioAsStated ==
  Scenario =>
    ScenarioResult(<<0, 2 * TicksPerSecond, 35 * TicksPerSecond,
                     35 * TicksPerSecond>>, 0, 2 * TicksPerSecond)

\* C9 amended: the frame at 0.0 is not admitted; the scenario hands off one
\* segment [2.0, 35.0, 35.0] whose result has start 2.0, end 35.0,
\* duration 33.0.
C9_ScenarioAmended ==
  Scenario =>
    ScenarioResult(<<2 * TicksPerSecond, 35 * TicksPerSecond,
                     35 * TicksPerSecond>>,
                   2 * TicksPerSecond, 35 * TicksPerSecond)

\* the scenario has run and its result is on the queue
C9_Witness == Scenario /\ Len(queue) = 1

\* C10: should_write_frame returns True exactly when frame_time is at least
\* 1/SUMMARY_OUTPUT_FPS after last_output_time and some tracked object is in
\* a zone and not stationary, or the number of motion boxes is odd.
C10_AdmissionRule ==
  \A n \in 1..Len(policy_call) :
    LET c == policy_call[n]
        rate_ok == (c.frame_time - c.last_output_time) * SUMMARY_OUTPUT_FPS
                     >= TicksPerSecond
        zoned == \E o \in Range(c.current_tracked_objects) :
                   o.current_zones # <<>> /\ o.stationary = FALSE
        odd == Len(c.motion_boxes) % 2 = 1
    IN c.ret = (rate_ok /\ (zoned \/ odd))

\* a zoned, moving object with an even number of motion boxes is admitted
\* once the rate limit allows it
C10_Witness ==
  \E n \in 1..Len(policy_call) :
    LET c == policy_call[n] IN
    /\ c.ret
    /\ Len(c.motion_boxes) % 2 = 0
    /\ c.last_output_time > 0
    /\ \E o \in Range(c.current_tracked_objects) :
         o.current_zones # <<>> /\ ~o.stationary

\* a step that is one write_data call; its record is the last of calls'
WriteDataStep == Len(calls') = Len(calls) + 1

\* the close condition of line 184 for the call just made, with start_time as
\* lines 176-177 left it
Expired ==
  LET ft  == Last(calls').frame_time
      st1 == IF start_time = 0 THEN ft ELSE start_time
  IN ft - st1 > SUMMARY_SEGMENT_DURATION * TicksPerSecond

\* the call handed off a segment, set start_time to its frame_time and left
\* the buffer empty
Closed ==
  /\ Len(converters') = Len(converters) + 1
  /\ start_time' = Last(calls').frame_time
  /\ output_frames' = <<>>

\* C11: a write_data call closes the window (hands off a segment, sets
\* start_time to frame_time, leaves the buffer empty) exactly when
\* frame_time - start_time > SUMMARY_SEGMENT_DURATION; otherwise no segment
\* is handed off and start_time stays as lines 176-177 left it.
C11_CloseIffExpired ==
  [][ WriteDataStep =>
        /\ Expired <=> Closed
        /\ ~Expired =>
             /\ converters' = converters
             /\ start_time' = (IF start_time = 0 THEN Last(calls').frame_time
                                ELSE start_time) ]_vars

Max(S) == CHOOSE x \in S : \A y \in S : y <= x

Min(S) == CHOOSE x \in S : \A y \in S : x <= y

\* the calls whose frame_time is not 0
NonZeroCalls == { k \in 1..Len(calls) : calls[k].frame_time # 0 }

\* start_time is set, and is the frame_time of call first when no window has
\* been closed yet, else of the latest call that handed off a segment
StartTimeIs(first) ==
  /\ start_time # 0
  /\ start_time = (IF Handoffs = {} THEN calls[first].frame_time
                   ELSE calls[Max(Handoffs)].frame_time)

\* C12 as stated: once a first frame has been delivered, start_time is never
\* 0 again and equals the timestamp of the first delivered frame or of the
\* most recent window-closing frame.
C12_StartTimeAsStated == calls # <<>> => StartTimeIs(1)

\* C12 amended: once a frame with a timestamp other than 0 has been
\* delivered, start_time is never 0 again and equals the timestamp of the
\* first such frame or of the most recent window-closing frame.
C12_StartTimeSetFromFirstNonZeroFrame ==
  NonZeroCalls # {} => StartTimeIs(Min(NonZeroCalls))

\* the first frame was not admitted, the second closed a window, and a third
\* frame with a later timestamp has been taken since
C12_Witness ==
  /\ Len(calls) = 3
  /\ ~calls[1].admitted
  /\ calls[2].handoff # 0
  /\ calls[3].handoff = 0
  /\ calls[3].frame_time > calls[2].frame_time

\* how often timestamp t stands in the open buffer and in the segments
Entries(t) ==
  Cardinality({ j \in 1..Len(output_frames) : output_frames[j] = t })
  + Cardinality({ p \in (1..Len(converters)) \X (1..(2 * MaxFrames)) :
                    /\ p[2] <= Len(converters[p[1]].frame_times)
                    /\ converters[p[1]].frame_times[p[2]] = t })

RECURSIVE WritesOf(_, _)
\* how many write_frame_to_cache calls for timestamp t succeeded in the
\* first n calls
WritesOf(t, n) ==
  IF n = 0 THEN 0
  ELSE WritesOf(t, n - 1)
         + (IF calls[n].frame_time = t THEN calls[n].writes ELSE 0)

\* C13: when persisting a frame fails, its timestamp is not put in the buffer
\* nor in a segment: every entry of the buffer and of the segments stands for
\* a cache write that succeeded.
C13_FailedWriteNotBuffered ==
  \A k \in 1..Len(calls) :
    Entries(calls[k].frame_time) <= WritesOf(calls[k].frame_time, Len(calls))

\* C14: should_write_frame sets last_output_time to frame_time when it
\* returns True and leaves it as it was when it returns False; it changes
\* neither start_time nor the buffer.
C14_PolicyFrameEffect ==
  [][ (policy_call' # policy_call \/ last_output_time' # last_output_time) =>
        LET c == policy_call'[1] IN
        /\ c.last_output_time = last_output_time
        /\ last_output_time' = (IF c.ret THEN c.frame_time ELSE last_output_time)
        /\ start_time' = start_time
        /\ output_frames' = output_frames ]_vars

\* a call that returned True and moved last_output_time forward to its
\* frame_time
C14_Witness ==
  \E n \in 1..Len(policy_call) :
    /\ policy_call[n].ret
    /\ policy_call[n].last_output_time < policy_call[n].frame_time
    /\ policy_call[n].last_output_time > 0
    /\ last_output_time = policy_call[n].frame_time

\* C15: the timestamps of a segment handed to a converter are never changed
\* by a later step, and a window closure starts one converter for its
\* segment and no other step starts one.
C15_SegmentsImmutable ==
  [][ /\ \A i \in 1..Len(converters) :
           /\ i <= Len(converters')
           /\ converters'[i].frame_times = converters[i].frame_times
      /\ Len(converters') =
           Len(converters)
             + (IF WriteDataStep /\ Last(calls').handoff # 0 THEN 1 ELSE 0) ]_vars

\* a frame was admitted into the new buffer after a segment was handed off
C15_Witness ==
  /\ Len(converters) >= 1
  /\ ClosingCall(1) < Len(calls)
  /\ Last(calls).admitted
  /\ output_frames = <<Last(calls).frame_time>>
  /\ Len(converters[1].frame_times) >= 2

\* C16: with frames delivered in non-decreasing order, for two consecutive
\* segments handed off every timestamp of the later one is at least the last
\* timestamp of the earlier one.  (That the converters may end in either
\* order is the reachability of C16_Witness.)
C16_HandoffInWindowOrder ==
  NonDecreasing =>
    \A i \in 1..Len(converters) - 1 :
      \A j \in 1..Len(converters[i + 1].frame_times) :
        converters[i + 1].frame_times[j] >= Last(converters[i].frame_times)

\* the converter of the later segment has delivered its result and removed
\* its files while the converter of the earlier segment is still encoding
C16_Witness ==
  /\ Len(converters) = 2
  /\ converters[2].pc = "done"
  /\ converters[1].pc = "encoding"
  /\ Len(queue) = 1
  /\ queue[1].path = converters[2].path
  /\ Last(converters[1].frame_times) < converters[2].frame_times[1]

IsNonDecreasing(frames) ==
  \A j \in 1..Len(frames) - 1 : frames[j] <= frames[j + 1]

\* C17: with frames delivered in non-decreasing order, the buffer of the open
\* window and every segment handed off is a non-decreasing sequence.
C17_BufferAndSegmentsNonDecreasing ==
  NonDecreasing =>
    /\ IsNonDecreasing(output_frames)
    /\ \A i \in 1..Len(converters) : IsNonDecreasing(converters[i].frame_times)

\* a segment of three entries starting with two different timestamps, and
\* an open window that holds a later timestamp
C17_Witness ==
  /\ Len(converters) = 1
  /\ Len(converters[1].frame_times) = 3
  /\ converters[1].frame_times[1] < converters[1].frame_times[2]
  /\ output_frames # <<>>
  /\ output_frames[1] > Last(converters[1].frame_times)

\* C18: the playlist of a segment of n timestamps has 2n + 1 lines: for the
\* j-th timestamp the file line of its cache file and then a duration line
\* with that timestamp minus the one before it (0 for the first), and at the
\* end one more file line for the last timestamp's cache file.
C18_PlaylistLayout ==
  \A i \in 1..Len(converters) :
    LET c  == converters[i]
        ft == c.frame_times
        n  == Len(ft)
    IN c.pc # "start"
         => /\ Len(c.playlist) = 2 * n + 1
            /\ c.playlist[1].kind = "file"
            /\ \A j \in 1..n :
                 /\ c.playlist[2 * j - 1] = FileLine(c.camera, ft[j])
                 /\ c.playlist[2 * j].kind = "duration"
                 /\ c.playlist[2 * j].seconds
                      = (IF j = 1 THEN 0 ELSE ft[j] - ft[j - 1])
            /\ c.playlist[2 * n + 1] = FileLine(c.camera, ft[n])

\* a playlist of seven lines whose second duration is positive and whose
\* third duration, between the two entries of the closing frame, is 0
C18_Witness ==
  \E i \in 1..Len(converters) :
    LET c == converters[i] IN
    /\ c.pc # "start"
    /\ Len(c.playlist) = 7
    /\ c.playlist[4].seconds > 0
    /\ c.playlist[6].seconds = 0
    /\ c.playlist[7].kind = "file"

\* the timestamps that stand in some segment handed off
SegmentTimes ==
  UNION { Range(converters[i].frame_times) : i \in 1..Len(converters) }

\* the timestamps should_write_frame returned True for
AdmittedTimes ==
  { calls[k].frame_time : k \in { n \in 1..Len(calls) : calls[n].admitted } }

Apart(s, t) == IF s >= t THEN s - t ELSE t - s

\* C19 as stated: any two different timestamps kept in the segments of the
\* stream, admitted by should_write_frame or written at the window's close,
\* are at least 1/SUMMARY_OUTPUT_FPS apart.
C19_KeptFramesOneSecondApart ==
  \A s, t \in SegmentTimes :
    s # t => Apart(s, t) * SUMMARY_OUTPUT_FPS >= TicksPerSecond

\* C19 as amended: any two different timestamps in the segments of the stream
\* that should_write_frame admitted are at least 1/SUMMARY_OUTPUT_FPS apart.
C19_AdmittedKeptOneSecondApart ==
  \A s, t \in SegmentTimes \cap AdmittedTimes :
    s # t => Apart(s, t) * SUMMARY_OUTPUT_FPS >= TicksPerSecond

\* a segment of two admitted timestamps and a closing frame that
\* should_write_frame rejected, less than 1/SUMMARY_OUTPUT_FPS after the
\* second one
C19_Witness ==
  \E i \in 1..Len(converters) :
    LET ft == converters[i].frame_times IN
    /\ Len(ft) = 3
    /\ ft[1] \in AdmittedTimes /\ ft[2] \in AdmittedTimes
    /\ ft[1] < ft[2]
    /\ ft[3] \notin AdmittedTimes
    /\ (ft[3] - ft[2]) * SUMMARY_OUTPUT_FPS < TicksPerSecond

\* every timestamp of the buffer lies in the open window
BufferInWindow ==
  \A j \in 1..Len(output_frames) :
    /\ start_time <= output_frames[j]
    /\ output_frames[j] <= start_time + SUMMARY_SEGMENT_DURATION * TicksPerSecond

\* C20: with frames delivered in non-decreasing order, after every write_data
\* call each timestamp t of the buffer has start_time <= t <= start_time +
\* SUMMARY_SEGMENT_DURATION; and when a segment is handed off its closing
\* timestamp is more than SUMMARY_SEGMENT_DURATION after the start of its
\* window while the entries put in before the closing call lie within
\* SUMMARY_SEGMENT_DURATION of that start.
C20_WindowBounds ==
  [][ (WriteDataStep /\ NonDecreasing') =>
        /\ BufferInWindow'
        /\ Last(calls').handoff # 0 =>
             LET c    == Last(calls')
                 seg  == Last(converters').frame_times
                 st   == init_start_time(start_time, c.frame_time)
                 last == Len(seg) - (IF c.admitted THEN 2 ELSE 1)
             IN /\ Last(seg) - st > SUMMARY_SEGMENT_DURATION * TicksPerSecond
                /\ \A j \in 1..last :
                     /\ st <= seg[j]
                     /\ seg[j] - st <= SUMMARY_SEGMENT_DURATION * TicksPerSecond
    ]_vars

====
